---- MODULE Spec2Model ----
(***************************************************************************)
(* Card gallery: the App container (src/src/App.jsx) with its error        *)
(* boundary, and the Card item (src/unnamed/part_000, imported by App as   *)
(* ./components/Card/Card).  Every event handler runs to completion, so    *)
(* one action is one handler together with the re-render and the effect    *)
(* it causes.                                                              *)
(***************************************************************************)
EXTENDS Integers, Sequences, FiniteSets, TLC

(***************************************************************************)
(* Bounds of the model.                                                    *)
(***************************************************************************)
\* entries present in localStorage when the page is first loaded
MaxStored == 1
\* Date.now() reads a value in 1..MaxTime
MaxTime == 2
\* length of the text the user puts in the title input
MaxTitleLen == 2
\* user events followed after a first load over any localStorage content
MaxSteps == 3
\* user events followed after a load that finds the seed cards' entries absent
MaxReturnSteps == 7

\* maxLength of the title input
TitleMaxLength == 50

(***************************************************************************)
(* Text.  A title is a sequence of characters, so that trim() is computed. *)
(***************************************************************************)
Chars == {" ", "a"}

IsWhitespace(c) == c = " "

RECURSIVE TrimStart(_)
TrimStart(s) ==
    IF s # <<>> /\ IsWhitespace(Head(s)) THEN TrimStart(Tail(s)) ELSE s

RECURSIVE TrimEnd(_)
TrimEnd(s) ==
    IF s # <<>> /\ IsWhitespace(s[Len(s)])
    THEN TrimEnd(SubSeq(s, 1, Len(s) - 1))
    ELSE s

\* String.prototype.trim, mutated: only leading whitespace is removed
TrimLeadingOnly(s) == TrimStart(s)

\* String.prototype.trim
Trim(s) == TrimEnd(TrimStart(s))

\* what the user can have in the title input
InputTitles ==
    UNION {[1..n -> Chars] : n \in 0..(IF MaxTitleLen < TitleMaxLength
                                        THEN MaxTitleLen ELSE TitleMaxLength)}

\* a text one character longer than the title input takes
LongText == [k \in 1..(TitleMaxLength + 1) |-> "a"]

\* what the user types or pastes into the title input
TypedTexts == InputTitles \cup {LongText}

\* the input, mutated: no maxLength
InputValueUnlimited(text) == text

\* e.target.value: the input keeps at most maxLength characters
InputValue(text) ==
    SubSeq(text, 1, IF Len(text) < TitleMaxLength THEN Len(text) ELSE TitleMaxLength)

(***************************************************************************)
(* JavaScript values held in a Card's isLiked state, and JSON.             *)
(***************************************************************************)
JsBool(b) == [kind |-> "boolean", truthy |-> b]
JsNumber(n) == [kind |-> "number", truthy |-> (n # 0)]
SyntaxError == [kind |-> "SyntaxError", truthy |-> FALSE]

Threw(v) == v.kind = "SyntaxError"

\* the ! operator
Not(v) == JsBool(~v.truthy)

\* JSON.parse of a stored text
JSONparse(s) ==
    CASE s = "true" -> JsBool(TRUE)
      [] s = "false" -> JsBool(FALSE)
      [] s = "1" -> JsNumber(1)
      [] s = "0" -> JsNumber(0)
      [] OTHER -> SyntaxError

\* JSON.stringify of a boolean
JSONstringify(v) == IF v.truthy THEN "true" ELSE "false"

\* texts an entry of localStorage may hold on first load
StoreValues == {"true", "false", "1", "oops"}

(***************************************************************************)
(* Cards and keys.                                                         *)
(***************************************************************************)
initialCards ==
    << [id |-> "react-dev",
        title |-> <<"R","e","a","c","t"," ","D","e","v","e","l","o","p","m","e","n","t">>,
        initialLiked |-> TRUE],
       [id |-> "js-fundamentals",
        title |-> <<"J","a","v","a","S","c","r","i","p","t"," ",
                    "F","u","n","d","a","m","e","n","t","a","l","s">>,
        initialLiked |-> FALSE],
       [id |-> "css-animations",
        title |-> <<"C","S","S"," ","A","n","i","m","a","t","i","o","n","s">>,
        initialLiked |-> TRUE],
       [id |-> "web-design",
        title |-> <<"W","e","b"," ","D","e","s","i","g","n"," ",
                    "P","r","i","n","c","i","p","l","e","s">>,
        initialLiked |-> FALSE] >>

\* readings of Date.now()
Times == 1..MaxTime

\* `card-${Date.now()}`
GeneratedId(now) == "card-" \o ToString(now)

\* `card-${cardId}-liked`
StorageKey(cardId) == "card-" \o cardId \o "-liked"

SeedIds == {initialCards[i].id : i \in DOMAIN initialCards}
AllIds == SeedIds \cup {GeneratedId(t) : t \in Times}
AllKeys == {StorageKey(id) : id \in AllIds}

(***************************************************************************)
(* localStorage: a partial map from keys to texts.                         *)
(***************************************************************************)
hasItem(st, k) == k \in DOMAIN st

\* getItem as a record: null is present = FALSE
getItem(st, k) ==
    IF k \in DOMAIN st
    THEN [present |-> TRUE, text |-> st[k]]
    ELSE [present |-> FALSE, text |-> ""]

setItem(st, k, v) == [x \in DOMAIN st \cup {k} |-> IF x = k THEN v ELSE st[x]]

removeItem(st, k) == [x \in DOMAIN st \ {k} |-> st[x]]

(***************************************************************************)
(* State.                                                                  *)
(***************************************************************************)
VARIABLES
    cards,         \* App: the list of card records
    likedCards,    \* App: the aggregate set of liked ids
    newCardTitle,  \* App: the text of the title input
    isAddingCard,  \* App: the add form is shown
    hasError,      \* ErrorBoundary: state.hasError
    isLiked,       \* the isLiked state of the Card mounted for cards[i]
    store,         \* localStorage
    last,          \* the handler that ran last, and what it saw
    steps          \* user events still to follow

vars == <<cards, likedCards, newCardTitle, isAddingCard, hasError, isLiked, store, last, steps>>

(***************************************************************************)
(* Card: the parts of its handlers.                                        *)
(***************************************************************************)
\* the initializer, mutated: a default of liked wins over the stored text
CardInitialStateDefaultWins(st, card) ==
    IF card.id # "" /\ hasItem(st, StorageKey(card.id)) /\ ~card.initialLiked
    THEN JSONparse(st[StorageKey(card.id)])
    ELSE JsBool(card.initialLiked)

\* useState(() => ...): the stored text parsed, else initialLiked
CardInitialState(st, card) ==
    IF card.id # "" /\ hasItem(st, StorageKey(card.id))
    THEN JSONparse(st[StorageKey(card.id)])
    ELSE JsBool(card.initialLiked)

\* the toggle, mutated: a toggle can only like
ToggledStateLikeOnly(prevLiked) == JsBool(TRUE)

\* const newLikedState = !prevLiked
ToggledState(prevLiked) == Not(prevLiked)

\* the confirmation, mutated: the answer is not looked at
DeleteProceedsAlways(answer) == TRUE

\* if (window.confirm(...))
DeleteProceeds(answer) == answer

(***************************************************************************)
(* App: the parts of its handlers.                                         *)
(***************************************************************************)
\* the effect, mutated: the default seed is not consulted
SyncLikedCardsStoredOnly(st, cs) ==
    {cs[i].id : i \in {j \in 1..Len(cs) :
        getItem(st, StorageKey(cs[j].id)).present
        /\ getItem(st, StorageKey(cs[j].id)).text = "true"}}

\* the effect, mutated: it walks the seed list, not the current list
SyncLikedCardsFromSeeds(st, cs) ==
    {initialCards[i].id : i \in {j \in 1..Len(initialCards) :
        LET savedState == getItem(st, StorageKey(initialCards[j].id))
        IN  \/ savedState.present /\ savedState.text = "true"
            \/ ~savedState.present /\ initialCards[j].initialLiked}}

\* useEffect(..., [cards]): the liked set read again from localStorage
SyncLikedCards(st, cs) ==
    {cs[i].id : i \in {j \in 1..Len(cs) :
        LET savedState == getItem(st, StorageKey(cs[j].id))
        IN  \/ savedState.present /\ savedState.text = "true"
            \/ ~savedState.present /\ cs[j].initialLiked}}

\* handleLikeChange, mutated: a report can only add the id
LikeChangedAddOnly(prev, cardId, liked) == prev \cup {cardId}

\* handleLikeChange: the updater of setLikedCards
LikeChanged(prev, cardId, liked) ==
    IF liked.truthy THEN prev \cup {cardId} ELSE prev \ {cardId}

\* handleCardDelete: prev.filter(card => card.id !== cardId)
FilterCards(prev, cardId) == SelectSeq(prev, LAMBDA card : card.id # cardId)

\* handleCardDelete: the updater of setLikedCards
LikedWithout(prev, cardId) == prev \ {cardId}

\* the guard of handleAddCard, mutated: the text is tested untrimmed
AddAcceptedUntrimmed(title) == title # <<>>

\* if (newCardTitle.trim())
AddAccepted(title) == Trim(title) # <<>>

\* the new record, mutated: the title is kept as typed
NewCardUntrimmed(title, now) ==
    [id |-> GeneratedId(now), title |-> title, initialLiked |-> FALSE]

\* const newCard = {...}
NewCard(title, now) ==
    [id |-> GeneratedId(now), title |-> Trim(title), initialLiked |-> FALSE]

\* the Cancel button: setIsAddingCard(false); setNewCardTitle('')
CancelledForm(title) == [adding |-> FALSE, title |-> <<>>]

\* the Escape handler, mutated: the text is left in the input
EscapedFormKeepsText(title) == [adding |-> FALSE, title |-> title]

\* handleKeyPress: setIsAddingCard(false); setNewCardTitle('')
EscapedForm(title) == [adding |-> FALSE, title |-> <<>>]

\* the Card states after rendering the whole list afresh
MountCards(st, cs) == [i \in 1..Len(cs) |-> CardInitialState(st, cs[i])]

\* a Card initializer throws while rendering
RenderFault(states) == \E i \in DOMAIN states : Threw(states[i])

(***************************************************************************)
(* The record of the last handler.                                         *)
(***************************************************************************)
NoSnap == [valid |-> FALSE, liked |-> JsBool(FALSE), stored |-> getItem(<<>>, "")]

Snap(i) ==
    [valid |-> TRUE, liked |-> isLiked[i],
     stored |-> getItem(store, StorageKey(cards[i].id))]

Event(op) ==
    [op |-> op, idx |-> 0, id |-> "", confirmed |-> FALSE, called |-> FALSE,
     accepted |-> FALSE, pre |-> NoSnap, prepre |-> NoSnap]

(***************************************************************************)
(* Initial state: the page loaded over any localStorage content.           *)
(***************************************************************************)
StoresOver(keys) ==
    UNION {[K -> StoreValues] :
              K \in {S \in SUBSET keys : Cardinality(S) <= MaxStored}}

\* App mounted over the store st
Mounted(st) ==
    /\ store = st
    /\ cards = initialCards
    /\ newCardTitle = <<>>
    /\ isAddingCard = FALSE
    /\ LET states == MountCards(store, initialCards)
       IN  /\ hasError = RenderFault(states)
           /\ isLiked = IF RenderFault(states) THEN <<>> ELSE states
    /\ likedCards = SyncLikedCards(store, initialCards)
    /\ last = Event("mount")

Init ==
    /\ \E st \in StoresOver(AllKeys) : Mounted(st)
    /\ steps = MaxSteps

\* a load that finds entries only under the keys of cards added in an earlier
\* session (a reload drops the added cards and keeps their entries)
InitReturn ==
    /\ \E st \in StoresOver({StorageKey(GeneratedId(t)) : t \in Times}) : Mounted(st)
    /\ steps = MaxReturnSteps

(***************************************************************************)
(* Every handler is one user event of the session.                         *)
(***************************************************************************)
Tick == steps > 0 /\ steps' = steps - 1

(***************************************************************************)
(* Card handlers.                                                          *)
(***************************************************************************)
\* toggleLike of the Card at position i (click, Enter or space on the button)
ToggleLike(i) ==
    /\ Tick
    /\ ~hasError
    /\ i \in DOMAIN cards
    /\ LET cardId == cards[i].id
           newLikedState == ToggledState(isLiked[i])
       IN  /\ isLiked' = [isLiked EXCEPT ![i] = newLikedState]
           /\ store' = IF cardId # ""
                       THEN setItem(store, StorageKey(cardId), JSONstringify(newLikedState))
                       ELSE store
           /\ likedCards' = LikeChanged(likedCards, cardId, newLikedState)
           /\ last' = [Event("toggle") EXCEPT
                          !.idx = i, !.id = cardId, !.called = TRUE,
                          !.pre = Snap(i),
                          !.prepre = IF last.op = "toggle" /\ last.idx = i
                                     THEN last.pre ELSE NoSnap]
    /\ UNCHANGED <<cards, newCardTitle, isAddingCard, hasError>>

\* positions of the old list that handleCardDelete keeps, in order
KeptPositions(cardId) ==
    SelectSeq([i \in 1..Len(cards) |-> i], LAMBDA i : cards[i].id # cardId)

\* The Card states after a delete.  A Card whose key is unique in the new list
\* keeps its state.  React does not define which instance a child is matched
\* with when keys repeat: such a Card has the state of any old instance under
\* its key, or is mounted afresh.
StatesAfterDelete(kept, st) ==
    {states \in [1..Len(kept) -> {isLiked[i] : i \in DOMAIN isLiked}
                                  \cup {CardInitialState(st, cards[kept[j]]) :
                                           j \in 1..Len(kept)}] :
        \A j \in 1..Len(kept) :
            LET same == {i \in DOMAIN cards : cards[i].id = cards[kept[j]].id}
            IN  IF same = {kept[j]}
                THEN states[j] = isLiked[kept[j]]
                ELSE \/ \E i \in same : states[j] = isLiked[i]
                     \/ states[j] = CardInitialState(st, cards[kept[j]])}

\* handleDelete of the Card at position i; answer is what window.confirm returns
HandleDelete(i, answer) ==
    /\ Tick
    /\ ~hasError
    /\ i \in DOMAIN cards
    /\ LET cardId == cards[i].id
       IN  IF DeleteProceeds(answer)
           THEN /\ store' = IF cardId # ""
                            THEN removeItem(store, StorageKey(cardId))
                            ELSE store
                /\ cards' = FilterCards(cards, cardId)
                \* the effect runs after handleCardDelete's own update
                /\ likedCards' = SyncLikedCards(store', cards')
                /\ isLiked' \in StatesAfterDelete(KeptPositions(cardId), store')
                /\ last' = [Event("delete") EXCEPT
                               !.idx = i, !.id = cardId, !.confirmed = answer,
                               !.called = TRUE]
           ELSE /\ UNCHANGED <<store, cards, likedCards, isLiked>>
                /\ last' = [Event("delete") EXCEPT !.confirmed = answer]
    /\ UNCHANGED <<newCardTitle, isAddingCard, hasError>>

(***************************************************************************)
(* App handlers.                                                           *)
(***************************************************************************)
\* the Add New Card button
ShowForm ==
    /\ Tick
    /\ ~hasError
    /\ ~isAddingCard
    /\ isAddingCard' = TRUE
    /\ last' = Event("show")
    /\ UNCHANGED <<cards, likedCards, newCardTitle, hasError, isLiked, store>>

\* onChange of the title input
ChangeTitle(text) ==
    /\ Tick
    /\ ~hasError
    /\ isAddingCard
    /\ InputValue(text) # newCardTitle
    /\ newCardTitle' = InputValue(text)
    /\ last' = Event("change")
    /\ UNCHANGED <<cards, likedCards, isAddingCard, hasError, isLiked, store>>

\* handleSubmit, which is handleAddCard; now is what Date.now() returns
HandleAddCard(now) ==
    /\ Tick
    /\ ~hasError
    /\ isAddingCard
    /\ IF AddAccepted(newCardTitle)
       THEN /\ LET newCard == NewCard(newCardTitle, now)
                   mounted == CardInitialState(store, newCard)
               IN  /\ cards' = Append(cards, newCard)
                   /\ hasError' = Threw(mounted)
                   /\ isLiked' = IF Threw(mounted) THEN <<>> ELSE Append(isLiked, mounted)
            /\ newCardTitle' = <<>>
            /\ isAddingCard' = FALSE
            /\ likedCards' = SyncLikedCards(store, cards')
            /\ last' = [Event("add") EXCEPT !.accepted = TRUE]
       ELSE /\ last' = Event("add")
            /\ UNCHANGED <<cards, likedCards, newCardTitle, isAddingCard, hasError, isLiked>>
    /\ UNCHANGED store

\* the Cancel button
CancelAdd ==
    /\ Tick
    /\ ~hasError
    /\ isAddingCard
    /\ isAddingCard' = CancelledForm(newCardTitle).adding
    /\ newCardTitle' = CancelledForm(newCardTitle).title
    /\ last' = Event("cancel")
    /\ UNCHANGED <<cards, likedCards, hasError, isLiked, store>>

\* handleKeyPress of the title input with e.key === 'Escape'
EscapeKey ==
    /\ Tick
    /\ ~hasError
    /\ isAddingCard
    /\ isAddingCard' = EscapedForm(newCardTitle).adding
    /\ newCardTitle' = EscapedForm(newCardTitle).title
    /\ last' = Event("escape")
    /\ UNCHANGED <<cards, likedCards, hasError, isLiked, store>>

(***************************************************************************)
(* ErrorBoundary.                                                          *)
(***************************************************************************)
\* Try Again: setState({hasError: false}) and the children rendered afresh
TryAgain ==
    /\ Tick
    /\ hasError
    /\ LET states == MountCards(store, cards)
       IN  /\ hasError' = RenderFault(states)
           /\ isLiked' = IF RenderFault(states) THEN <<>> ELSE states
    /\ last' = Event("reset")
    /\ UNCHANGED <<cards, likedCards, newCardTitle, isAddingCard, store>>

(***************************************************************************)
(* The browser.                                                            *)
(***************************************************************************)
\* a reload of the page: App is mounted again, localStorage is kept
Reload ==
    /\ Tick
    /\ store' = store
    /\ cards' = initialCards
    /\ newCardTitle' = <<>>
    /\ isAddingCard' = FALSE
    /\ LET states == MountCards(store, initialCards)
       IN  /\ hasError' = RenderFault(states)
           /\ isLiked' = IF RenderFault(states) THEN <<>> ELSE states
    /\ likedCards' = SyncLikedCards(store, initialCards)
    /\ last' = Event("reload")

Next ==
    \/ \E i \in DOMAIN cards : ToggleLike(i)
    \/ \E i \in DOMAIN cards, answer \in BOOLEAN : HandleDelete(i, answer)
    \/ ShowForm
    \/ \E text \in TypedTexts : ChangeTitle(text)
    \/ \E now \in Times : HandleAddCard(now)
    \/ CancelAdd
    \/ EscapeKey
    \/ TryAgain
    \/ Reload

Spec == Init /\ [][Next]_vars

SpecReturn == InitReturn /\ [][Next]_vars

(***************************************************************************)
(* Claims.                                                                 *)
(***************************************************************************)
\* the persisted entry of the card at position i
Persisted(i) == getItem(store, StorageKey(cards[i].id))

\* cards shown as Liked
ShownLiked == {i \in DOMAIN isLiked : isLiked[i].truthy}

AllWhitespace(text) == \A k \in DOMAIN text : IsWhitespace(text[k])

\* C1: while the cards are rendered, the liked count (the size of the liked set)
\* is the number of cards in the list whose own like flag is Liked.
LikedCountMatchesCards ==
    ~hasError => Cardinality(likedCards) = Cardinality(ShownLiked)

\* C2: on an initial load every mounted card starts from its persisted flag when
\* an entry exists, whatever initialLiked is, and from initialLiked otherwise.
InitialLoadUsesPersistedFlag ==
    (last.op = "mount" /\ ~hasError) =>
        \A i \in DOMAIN cards :
            /\ (Persisted(i).present /\ Persisted(i).text = "true")
                   => isLiked[i] = JsBool(TRUE)
            /\ (Persisted(i).present /\ Persisted(i).text = "false")
                   => isLiked[i] = JsBool(FALSE)
            /\ (Persisted(i).present /\ Persisted(i).text = "1")
                   => isLiked[i] = JsNumber(1)
            /\ ~Persisted(i).present
                   => isLiked[i] = JsBool(cards[i].initialLiked)

\* C2 witness: a card whose default is liked was loaded over an entry "false".
InitialLoadOverEntry ==
    /\ last.op = "mount"
    /\ ~hasError
    /\ \E i \in DOMAIN cards :
          /\ cards[i].initialLiked
          /\ Persisted(i).present
          /\ Persisted(i).text = "false"
          /\ ~isLiked[i].truthy

\* the last two handlers were toggles of the same card
ToggledTwice == last.op = "toggle" /\ last.prepre.valid

\* C3 as stated: after two toggles in a row the card's like state and its
\* persisted entry are both what they were before the two toggles.
DoubleToggleRestoresBoth ==
    ToggledTwice =>
        /\ isLiked[last.idx] = last.prepre.liked
        /\ Persisted(last.idx) = last.prepre.stored

\* C3 amended: after two toggles in a row the card shows the state it showed
\* before them, and an entry exists that holds the text of that state.
DoubleToggleRestoresShownState ==
    ToggledTwice =>
        /\ isLiked[last.idx].truthy = last.prepre.liked.truthy
        /\ isLiked[last.idx].kind = "boolean"
        /\ Persisted(last.idx).present
        /\ Persisted(last.idx).text =
               (IF last.prepre.liked.truthy THEN "true" ELSE "false")

\* C3 witness: two toggles of a card that had no entry at the start.
ToggledTwiceFromNoEntry ==
    /\ ToggledTwice
    /\ ~last.prepre.stored.present
    /\ Persisted(last.idx).present

\* C4: a confirmed delete takes exactly one entry out of the list, the others
\* keeping their order, and takes the id out of the liked set and its entry out
\* of the store.
DeleteRemovesExactlyOne ==
    [][(last'.op = "delete" /\ last'.confirmed) =>
          /\ Len(cards') = Len(cards) - 1
          /\ \E k \in DOMAIN cards :
                /\ cards[k].id = last'.id
                /\ cards' = SubSeq(cards, 1, k - 1) \o SubSeq(cards, k + 1, Len(cards))
          /\ last'.id \notin likedCards'
          /\ StorageKey(last'.id) \notin DOMAIN store']_vars

\* C5: an add whose title has text appends one card, with that text trimmed and
\* not liked by default, leaves the other cards as they are, and empties and
\* closes the form.
AddAppendsTrimmedCard ==
    [][(last'.op = "add" /\ ~AllWhitespace(newCardTitle)) =>
          /\ last'.accepted
          /\ Len(cards') = Len(cards) + 1
          /\ SubSeq(cards', 1, Len(cards)) = cards
          /\ LET title == cards'[Len(cards')].title
             IN  /\ title # <<>>
                 /\ ~IsWhitespace(title[1])
                 /\ ~IsWhitespace(title[Len(title)])
                 /\ \E a \in 0..Len(newCardTitle) :
                       /\ a + Len(title) <= Len(newCardTitle)
                       /\ SubSeq(newCardTitle, a + 1, a + Len(title)) = title
                       /\ \A k \in DOMAIN newCardTitle :
                             (k <= a \/ k > a + Len(title))
                                 => IsWhitespace(newCardTitle[k])
          /\ cards'[Len(cards')].initialLiked = FALSE
          /\ newCardTitle' = <<>>
          /\ isAddingCard' = FALSE]_vars

\* C5 witness: a card was added to the four seed cards.
CardAdded ==
    /\ last.op = "add"
    /\ last.accepted
    /\ Len(cards) = Len(initialCards) + 1
    /\ cards[Len(cards)].title = <<"a">>
    /\ newCardTitle = <<>>
    /\ ~isAddingCard

\* C6: an add whose title is empty or all whitespace changes neither the list,
\* the liked set nor the store, and raises no error.
BlankAddRejected ==
    [][(last'.op = "add" /\ AllWhitespace(newCardTitle)) =>
          /\ ~last'.accepted
          /\ UNCHANGED <<cards, likedCards, store, hasError, isLiked>>]_vars

\* C6 witness: a whitespace title was submitted and turned down.
BlankAddSubmitted ==
    /\ last.op = "add"
    /\ ~last.accepted
    /\ newCardTitle = <<" ">>
    /\ ~hasError

\* C7: the delete callback runs only when the prompt was confirmed, and a
\* delete that is not confirmed changes nothing.
UnconfirmedDeleteHasNoEffect ==
    [][last'.op = "delete" =>
          /\ last'.called => last'.confirmed
          /\ ~last'.confirmed => UNCHANGED <<cards, likedCards, isLiked, store>>]_vars

\* C7 witness: a delete was asked for and the prompt was declined.
DeleteDeclined ==
    /\ last.op = "delete"
    /\ ~last.confirmed
    /\ ~last.called
    /\ Len(cards) = Len(initialCards)

\* C8: after Try Again the boundary is out of its error state and the cards
\* are rendered.
TryAgainRestoresRendering ==
    last.op = "reset" => (~hasError /\ Len(isLiked) = Len(cards))

\* the liked set the claim C9 describes
PersistedOrDefaultLiked ==
    {id \in {cards[i].id : i \in DOMAIN cards} :
        \E i \in DOMAIN cards :
            /\ cards[i].id = id
            /\ \/ StorageKey(id) \in DOMAIN store /\ store[StorageKey(id)] = "true"
               \/ StorageKey(id) \notin DOMAIN store /\ cards[i].initialLiked}

\* the last handler changed the list
ListChanged ==
    \/ last.op = "mount"
    \/ last.op = "add" /\ last.accepted
    \/ last.op = "delete" /\ last.confirmed

\* C9: after a change of the list (mount, add, delete) the liked set is the set
\* of ids of listed cards whose entry is "true", or is absent with a liked default.
LikedSetResynchronized ==
    ListChanged => likedCards = PersistedOrDefaultLiked

\* C9 witness: after a delete a card without entry is in the liked set by its
\* default, and a card with an entry "true" is in it by the entry.
ResynchronizedAfterDelete ==
    /\ last.op = "delete"
    /\ last.confirmed
    /\ \E i \in DOMAIN cards : ~Persisted(i).present /\ cards[i].id \in likedCards
    /\ \E i \in DOMAIN cards :
          /\ ~cards[i].initialLiked
          /\ Persisted(i).present
          /\ cards[i].id \in likedCards

\* C10: the ids of the cards in the list are pairwise distinct.
CardIdsDistinct ==
    \A i, j \in DOMAIN cards : i # j => cards[i].id # cards[j].id

\* C11: every toggle flips the card's like flag, leaves an entry under the
\* card's key holding the text of the new flag, and leaves the card's id in the
\* liked set exactly when the new flag is liked.
ToggleFlipsPersistsReports ==
    last.op = "toggle" =>
        /\ isLiked[last.idx].kind = "boolean"
        /\ isLiked[last.idx].truthy = ~last.pre.liked.truthy
        /\ StorageKey(cards[last.idx].id) \in DOMAIN store
        /\ store[StorageKey(cards[last.idx].id)] \in {"true", "false"}
        /\ (store[StorageKey(cards[last.idx].id)] = "true") = isLiked[last.idx].truthy
        /\ (cards[last.idx].id \in likedCards) = isLiked[last.idx].truthy

\* C11 witness: a liked card without entry was toggled: it is not liked, an
\* entry "false" was created and its id left the liked set.
ToggledToNotLiked ==
    /\ last.op = "toggle"
    /\ last.pre.liked.truthy
    /\ ~last.pre.stored.present
    /\ ~isLiked[last.idx].truthy
    /\ Persisted(last.idx).text = "false"
    /\ cards[last.idx].id \notin likedCards

\* the handler that just ran is the toggle of the card at position i
OwnToggle(i) == last'.op = "toggle" /\ last'.idx = i

\* the handler that just ran is the confirmed delete of the card at position i
OwnDelete(i) == last'.op = "delete" /\ last'.confirmed /\ last'.idx = i

\* where the card at position i is after the step, when the same Card
\* instances stay mounted over it
PositionAfter(i) ==
    IF last'.op = "delete" /\ last'.confirmed
    THEN Cardinality({k \in 1..i : cards[k].id # last'.id})
    ELSE i

\* the Card instance at position i is mounted before and after the step
StaysMounted(i) ==
    /\ ~hasError
    /\ ~hasError'
    /\ last'.op # "reload"
    /\ ~(last'.op = "delete" /\ last'.confirmed /\ cards[i].id = last'.id)

\* C12: a card's like flag changes only in its own toggle; its entry is written
\* only by its own toggle and removed only by its own confirmed delete; a toggle
\* with its report leaves the list and every other entry alone.
OwnHandlersOnly ==
    [][/\ \A i \in DOMAIN cards :
             /\ (StaysMounted(i) /\ ~OwnToggle(i))
                    => isLiked'[PositionAfter(i)] = isLiked[i]
             /\ ~(OwnToggle(i) \/ OwnDelete(i))
                    => getItem(store', StorageKey(cards[i].id))
                           = getItem(store, StorageKey(cards[i].id))
             /\ OwnToggle(i) => StorageKey(cards[i].id) \in DOMAIN store'
             /\ OwnDelete(i) => StorageKey(cards[i].id) \notin DOMAIN store'
       /\ last'.op = "toggle" =>
             /\ cards' = cards
             /\ \A k \in (DOMAIN store \cup DOMAIN store') \ {StorageKey(last'.id)} :
                   getItem(store', k) = getItem(store, k)]_vars

\* the three numbers of the stats-container
totalCards == Len(cards)
likeCount == Cardinality(likedCards)
notLikedCount == totalCards - likeCount

\* C13: the liked set holds only ids of cards in the list, so the statistics
\* satisfy total = liked + not-liked, 0 <= liked <= total and not-liked >= 0.
LikedSetWithinList ==
    /\ likedCards \subseteq {cards[i].id : i \in DOMAIN cards}
    /\ totalCards = likeCount + notLikedCount
    /\ 0 <= likeCount
    /\ likeCount <= totalCards
    /\ notLikedCount >= 0

\* C13 witness: a card that was in the liked set was deleted.
LikedCardDeleted ==
    /\ last.op = "delete"
    /\ last.confirmed
    /\ last.id = "react-dev"
    /\ likedCards = {"css-animations"}
    /\ totalCards = Len(initialCards) - 1
    /\ notLikedCount = 2

\* C14: a reload keeps the like state of every seed card that was in the list,
\* and after it the liked count is the number of seed cards shown as Liked.
LikeStateSurvivesReload ==
    [][last'.op = "reload" =>
          /\ \A i \in DOMAIN isLiked :
                cards[i].id \in SeedIds =>
                    \E j \in DOMAIN isLiked' :
                        /\ cards'[j].id = cards[i].id
                        /\ isLiked'[j] = isLiked[i]
          /\ ~hasError' =>
                Cardinality(likedCards')
                    = Cardinality({j \in DOMAIN isLiked' : isLiked'[j].truthy})]_vars

\* C15: every card in the list has a title that is not empty and has at most
\* 50 characters, and the title of a card made by an add neither starts nor
\* ends with whitespace.
TitlesWellFormed ==
    \A i \in DOMAIN cards :
        /\ cards[i].title # <<>>
        /\ Len(cards[i].title) <= 50
        /\ cards[i].id \notin SeedIds =>
               /\ ~IsWhitespace(cards[i].title[1])
               /\ ~IsWhitespace(cards[i].title[Len(cards[i].title)])

\* C15 witness: a card was added from a text that filled the title input.
FullLengthTitleAdded ==
    /\ last.op = "add"
    /\ last.accepted
    /\ cards[Len(cards)].id \notin SeedIds
    /\ Len(cards[Len(cards)].title) = 50

\* C16: a cancel, by the Cancel button or by Escape, empties the title input,
\* closes the form and creates no card: list, liked set and store are unchanged.
CancelDiscardsInput ==
    [][last'.op \in {"cancel", "escape"} =>
          /\ isAddingCard
          /\ newCardTitle' = <<>>
          /\ isAddingCard' = FALSE
          /\ UNCHANGED <<cards, likedCards, store, isLiked, hasError>>]_vars

\* C16 witness: the form was closed by Escape and the input is empty.
EscapedFromForm ==
    /\ last.op = "escape"
    /\ ~isAddingCard
    /\ newCardTitle = <<>>
    /\ cards = initialCards

====
